---- MODULE Spec2Model ----
(***************************************************************************)
(* Model of the hotel routes of the aHotel backend                         *)
(* (src/backend/src/routes/hotels.ts): the search handler with its query   *)
(* builder, the get-by-id handler, the payment-intent handler and the      *)
(* booking-confirmation handler, running as concurrent requests against    *)
(* the hotel collection (MongoDB through Mongoose) and the payment         *)
(* processor (Stripe).                                                     *)
(*                                                                         *)
(* A handler is sequential and is suspended only at its awaits.  Each      *)
(* action below is one awaited call taking effect at the database or the   *)
(* processor, followed by the handler's own code up to its next await (or  *)
(* to the response): that code touches only the handler's locals.          *)
(***************************************************************************)
EXTENDS Integers, Sequences, FiniteSets, TLC

VARIABLES
    hotels,     \* the hotel collection: id -> document
    intents,    \* the processor's payment intents: intent id -> intent
    reqs,       \* the booking-flow requests received so far (sequence)
    search      \* the search request of the search specification

vars == <<hotels, intents, reqs, search>>

-----------------------------------------------------------------------------
(* Bounds *)

MaxRequests == 2        \* booking-flow requests in one behaviour
MaxNights == 2          \* numberOfNights ranges over 1..MaxNights
MaxHotels == 7          \* hotels in the collection searched
MaxPage == 4            \* page ranges over 1..MaxPage

-----------------------------------------------------------------------------
(* The data *)

Users == {"u1", "u2"}

\* Ids a path can carry: two stored hotels, a well-formed id of no hotel,
\* and a string that is no ObjectId.
StoredIds == {"h1", "h2"}
PathIds == StoredIds \cup {"h404", "bad"}

\* Mongoose casts the id of a query to an ObjectId and rejects with a
\* CastError when the string is not one.
IsObjectId(id) == id # "bad"

PriceOf(id) == IF id = "h1" THEN 200 ELSE 150

\* totalCost values a client may put in the confirmation body
ClientCosts == {600, 1}

None == <<>>
Some(x) == <<x>>

NoResponse == [status |-> 0, message |-> "", data |-> <<>>]
Response(code, msg, d) == [status |-> code, message |-> msg, data |-> d]

-----------------------------------------------------------------------------
(* The handlers' own computations *)

\* hotels.ts:94   const totalCost = hotel.pricePerNight * numberOfNights
TotalCost(hotel, numberOfNights) == hotel.pricePerNight * numberOfNights

\* The amount left in major units.
IntentAmountMajorUnits(totalCost) == totalCost

\* hotels.ts:97   amount: totalCost * 100
IntentAmount(totalCost) == totalCost * 100

\* hotels.ts:96-103   the intent asked of the processor
CreateParams(totalCost, hotelId, userId) ==
    [amount |-> IntentAmount(totalCost),
     currency |-> "usd",
     metadata |-> [hotelId |-> hotelId, userId |-> userId]]

\* The check with the user comparison left out.
IntentMismatchHotelOnly(paymentIntent, hotelId, userId) ==
    paymentIntent.metadata.hotelId # hotelId

\* hotels.ts:133-136
IntentMismatch(paymentIntent, hotelId, userId) ==
    \/ paymentIntent.metadata.hotelId # hotelId
    \/ paymentIntent.metadata.userId # userId

\* The status check accepting an intent still in processing.
NotSucceededLax(paymentIntent) ==
    paymentIntent.status \notin {"succeeded", "processing"}

\* hotels.ts:140
NotSucceeded(paymentIntent) == paymentIntent.status # "succeeded"

\* hotels.ts:146-149   { ...req.body, userId: req.userId }
NewBooking(body, userId) ==
    [paymentIntentId |-> body.paymentIntentId,
     totalCost |-> body.totalCost,
     userId |-> userId]

\* A push that skips a payment intent id the hotel already holds.
PushBookingOnce(stored, booking) ==
    IF \E k \in DOMAIN stored.bookings :
         stored.bookings[k].paymentIntentId = booking.paymentIntentId
    THEN stored
    ELSE [stored EXCEPT !.bookings = Append(@, booking)]

\* hotels.ts:151-156   $push: { bookings: newBooking }, applied by the
\* database to the stored document in one atomic update
PushBooking(stored, booking) ==
    [stored EXCEPT !.bookings = Append(@, booking)]

\* The document a query hands back: the stored fields, hydrated, with no
\* path marked modified.
Hydrate(stored) ==
    [pricePerNight |-> stored.pricePerNight,
     bookings |-> stored.bookings,
     modifiedPaths |-> {}]

\* A save that writes the whole document back.
SaveWholeDocument(stored, doc) ==
    [pricePerNight |-> doc.pricePerNight, bookings |-> doc.bookings]

\* hotels.ts:162   hotel.save(): Mongoose writes the paths of the document
\* that are marked modified, and nothing else.
SaveDocument(stored, doc) ==
    [pricePerNight |-> IF "pricePerNight" \in doc.modifiedPaths
                       THEN doc.pricePerNight ELSE stored.pricePerNight,
     bookings |-> IF "bookings" \in doc.modifiedPaths
                  THEN doc.bookings ELSE stored.bookings]

-----------------------------------------------------------------------------
(* The database and the processor *)

\* Hotel.findById(id) and Hotel.findOneAndUpdate({_id: id}, ...): the call
\* rejects when the database cannot be reached, and with a CastError when
\* the string is not an ObjectId; it answers null for an id of no document.
FindError(id, dbDown) ==
    IF dbDown THEN "unavailable"
    ELSE IF ~IsObjectId(id) THEN "CastError"
    ELSE ""
FindById(id) == IF id \in DOMAIN hotels THEN Some(Hydrate(hotels[id])) ELSE None

\* stripe.paymentIntents.retrieve(id): rejects when the processor cannot be
\* reached and for an id of no intent; it resolves to the intent otherwise.
Retrieve(id) == IF id \in DOMAIN intents THEN Some(intents[id]) ELSE None

RetrieveError(id, stripeDown) ==
    IF stripeDown THEN "unavailable"
    ELSE IF id \notin DOMAIN intents THEN "resource_missing"
    ELSE ""

-----------------------------------------------------------------------------
(* Requests *)

NewRequest(kind, hotelId, userId, body) ==
    [kind |-> kind, hotelId |-> hotelId, userId |-> userId, body |-> body,
     pc |-> "start", res |-> NoResponse, error |-> "",
     paymentIntent |-> None, newBooking |-> None, hotel |-> None,
     totalCost |-> 0]

\* res.status(code).json(...) / res.send(...): the response ends the handler
\* at every place the code responds.
Respond(req, response) == [req EXCEPT !.pc = "done", !.res = response]

\* An await rejects outside any try block: the async handler's promise is
\* rejected, nothing catches it, and no response is written.
Unhandled(req, err) == [req EXCEPT !.pc = "done", !.error = err]

\* An await rejects inside the handler's try block: the catch responds.
Caught(req, err, msg) ==
    [req EXCEPT !.pc = "done", !.error = err, !.res = Response(500, msg, <<>>)]

Live == DOMAIN reqs
CanReceive == Len(reqs) < MaxRequests

-----------------------------------------------------------------------------
(* GET /:id   (hotels.ts:63-81) *)

\* The handler with its single await, Hotel.findById.
GetHotelHandler(req, dbDown) ==
    IF req.hotelId = ""
    THEN Respond(req, Response(400, "Hotel ID is required", <<>>))
    ELSE IF FindError(req.hotelId, dbDown) # ""
    THEN Caught(req, FindError(req.hotelId, dbDown), "Error fetching hotel")
    ELSE Respond(req, Response(200, "", FindById(req.hotelId)))

GetHotel ==
    /\ CanReceive
    /\ \E id \in PathIds, dbDown \in BOOLEAN :
         reqs' = Append(reqs, GetHotelHandler(NewRequest("get", id, "", <<>>), dbDown))
    /\ UNCHANGED <<hotels, intents, search>>

-----------------------------------------------------------------------------
(* POST /:hotelId/bookings/payment-intent   (hotels.ts:83-117) *)

\* Lines 86-94: the request is received and Hotel.findById answers.
PaymentIntentFound(req, dbDown) ==
    IF FindError(req.hotelId, dbDown) # ""
    THEN Unhandled(req, FindError(req.hotelId, dbDown))
    ELSE IF FindById(req.hotelId) = None
    THEN Respond(req, Response(400, "Hotel not found", <<>>))
    ELSE [req EXCEPT !.pc = "create",
                     !.hotel = FindById(req.hotelId),
                     !.totalCost = TotalCost(FindById(req.hotelId)[1],
                                             req.body.numberOfNights)]

PaymentIntentFindHotel ==
    /\ CanReceive
    /\ \E id \in PathIds, u \in Users, n \in 1..MaxNights, dbDown \in BOOLEAN :
         reqs' = Append(reqs,
                   PaymentIntentFound(
                     NewRequest("payment-intent", id, u, [numberOfNights |-> n]),
                     dbDown))
    /\ UNCHANGED <<hotels, intents, search>>

\* The intent the processor creates from the parameters: a fresh id, the
\* first status of the lifecycle, and a client secret (null in the type).
CreatedIntent(params, secret) ==
    [amount |-> params.amount, currency |-> params.currency,
     metadata |-> params.metadata,
     status |-> "requires_payment_method", client_secret |-> secret]

NextIntentId == Len(intents) + 1

\* Lines 105-115: the code after stripe.paymentIntents.create answered.
PaymentIntentCreated(req, id, paymentIntent) ==
    IF paymentIntent.client_secret = None
    THEN Respond(req, Response(500, "Error creating payment intent", <<>>))
    ELSE Respond(req, Response(200, "",
                   <<[paymentIntentId |-> id,
                      clientSecret |-> paymentIntent.client_secret[1],
                      totalCost |-> req.totalCost]>>))

PaymentIntentCreate(r) ==
    /\ reqs[r].kind = "payment-intent"
    /\ reqs[r].pc = "create"
    /\ \/ /\ reqs' = [reqs EXCEPT ![r] = Unhandled(@, "unavailable")]
          /\ UNCHANGED intents
       \/ \E secret \in {None, Some("secret")} :
            LET pi == CreatedIntent(
                        CreateParams(reqs[r].totalCost, reqs[r].hotelId,
                                     reqs[r].userId), secret)
            IN /\ intents' = Append(intents, pi)
               /\ reqs' = [reqs EXCEPT ![r] =
                             PaymentIntentCreated(@, NextIntentId, pi)]
    /\ UNCHANGED <<hotels, search>>

-----------------------------------------------------------------------------
(* The payer and the processor move an intent through its lifecycle *)

PaymentSubmitted(i) ==
    /\ intents[i].status = "requires_payment_method"
    /\ intents[i].client_secret # None
    /\ intents' = [intents EXCEPT ![i].status = "processing"]
    /\ UNCHANGED <<hotels, reqs, search>>

PaymentSettled(i) ==
    /\ intents[i].status = "processing"
    /\ \E outcome \in {"succeeded", "requires_payment_method"} :
         intents' = [intents EXCEPT ![i].status = outcome]
    /\ UNCHANGED <<hotels, reqs, search>>

-----------------------------------------------------------------------------
(* POST /:hotelId/bookings   (hotels.ts:119-170) *)

\* Lines 123-149: the request is received, stripe.paymentIntents.retrieve
\* answers, and the three checks run in the code's order.
BookingRetrieved(req, stripeDown) ==
    IF RetrieveError(req.body.paymentIntentId, stripeDown) # ""
    THEN Caught(req, RetrieveError(req.body.paymentIntentId, stripeDown),
                "something went wrong")
    ELSE IF Retrieve(req.body.paymentIntentId) = None
    THEN Respond(req, Response(400, "payment intent not found", <<>>))
    ELSE LET paymentIntent == Retrieve(req.body.paymentIntentId)[1]
             got == [req EXCEPT !.paymentIntent = Some(paymentIntent)]
         IN IF IntentMismatch(paymentIntent, req.hotelId, req.userId)
            THEN Respond(got, Response(400, "payment intent mismatch", <<>>))
            ELSE IF NotSucceeded(paymentIntent)
            THEN Respond(got, Response(400,
                           "payment intent not succeeded. Status: ",
                           <<paymentIntent.status>>))
            ELSE [got EXCEPT !.pc = "findOneAndUpdate",
                             !.newBooking = Some(NewBooking(req.body, req.userId))]

\* The intent id of a confirmation body: an id of the processor's, or one
\* it does not know (NextIntentId).
BookingRetrieveIntent ==
    /\ CanReceive
    /\ \E id \in PathIds, u \in Users, pid \in 1..NextIntentId, c \in ClientCosts,
          stripeDown \in BOOLEAN :
         reqs' = Append(reqs,
                   BookingRetrieved(
                     NewRequest("booking", id, u,
                                [paymentIntentId |-> pid, totalCost |-> c]),
                     stripeDown))
    /\ UNCHANGED <<hotels, intents, search>>

\* Lines 151-160: Hotel.findOneAndUpdate pushes the booking atomically and
\* hands back the document as it was before the update.
BookingFindOneAndUpdate(r) ==
    /\ reqs[r].kind = "booking"
    /\ reqs[r].pc = "findOneAndUpdate"
    /\ \E dbDown \in BOOLEAN :
         IF FindError(reqs[r].hotelId, dbDown) # ""
         THEN /\ reqs' = [reqs EXCEPT ![r] =
                            Caught(@, FindError(reqs[r].hotelId, dbDown),
                                   "something went wrong")]
              /\ UNCHANGED hotels
         ELSE IF FindById(reqs[r].hotelId) = None
         THEN /\ reqs' = [reqs EXCEPT ![r] =
                            Respond(@, Response(400, "hotel not found", <<>>))]
              /\ UNCHANGED hotels
         ELSE /\ hotels' = [hotels EXCEPT ![reqs[r].hotelId] =
                              PushBooking(@, reqs[r].newBooking[1])]
              /\ reqs' = [reqs EXCEPT ![r].pc = "save",
                                      ![r].hotel = FindById(reqs[r].hotelId)]
    /\ UNCHANGED <<intents, search>>

\* Lines 162-164: hotel.save() on the document handed back, then 200.
BookingSave(r) ==
    /\ reqs[r].kind = "booking"
    /\ reqs[r].pc = "save"
    /\ \E dbDown \in BOOLEAN :
         IF dbDown
         THEN /\ reqs' = [reqs EXCEPT ![r] =
                            Caught(@, "unavailable", "something went wrong")]
              /\ UNCHANGED hotels
         ELSE /\ hotels' = [hotels EXCEPT ![reqs[r].hotelId] =
                              SaveDocument(@, reqs[r].hotel[1])]
              /\ reqs' = [reqs EXCEPT ![r] = Respond(@, Response(200, "", <<>>))]
    /\ UNCHANGED <<intents, search>>

-----------------------------------------------------------------------------
(* The booking flow *)

Init ==
    /\ hotels = [id \in StoredIds |-> [pricePerNight |-> PriceOf(id), bookings |-> <<>>]]
    /\ intents = <<>>
    /\ reqs = <<>>
    /\ search = None

Next ==
    \/ GetHotel
    \/ PaymentIntentFindHotel
    \/ \E r \in Live : PaymentIntentCreate(r)
    \/ \E i \in DOMAIN intents : PaymentSubmitted(i)
    \/ \E i \in DOMAIN intents : PaymentSettled(i)
    \/ BookingRetrieveIntent
    \/ \E r \in Live : BookingFindOneAndUpdate(r)
    \/ \E r \in Live : BookingSave(r)

Spec == Init /\ [][Next]_vars

-----------------------------------------------------------------------------
(* Confirmations of payments already made *)

\* An intent as the payment-intent handler had it created for a one-night
\* stay by user u at stored hotel h (lines 94-103), paid since.
PaidIntent(h, u) ==
    [CreatedIntent(CreateParams(TotalCost(hotels[h], 1), h, u), Some("secret"))
       EXCEPT !.status = "succeeded"]

\* The state after two payment-intent requests for hotel h1 were answered
\* and both payments succeeded, the first by u1, the second by either user.
\* Only confirmation requests follow.
InitBooking ==
    /\ hotels = [id \in StoredIds |-> [pricePerNight |-> PriceOf(id), bookings |-> <<>>]]
    /\ reqs = <<>>
    /\ search = None
    /\ \E u \in Users :
         intents = <<PaidIntent("h1", "u1"), PaidIntent("h1", u)>>

NextBooking ==
    \/ BookingRetrieveIntent
    \/ \E r \in Live : BookingFindOneAndUpdate(r)
    \/ \E r \in Live : BookingSave(r)

SpecBooking == InitBooking /\ [][NextBooking]_vars

-----------------------------------------------------------------------------
(* GET /search: request values   (hotels.ts:16-61, 174-231) *)

\* A query-string value is undefined, a string (a sequence of characters)
\* or, for a repeated parameter, an array of strings.
Undefined == [kind |-> "undefined", v |-> <<>>]
Str(chars) == [kind |-> "string", v |-> chars]
Arr(strings) == [kind |-> "array", v |-> strings]

\* if (queryParams.x): undefined and the empty string are falsy.
Truthy(x) == x.kind = "array" \/ (x.kind = "string" /\ x.v # <<>>)

\* Array.isArray(x)
IsArray(x) == x.kind = "array"

\* NaN, which no string of digits parses to, is written as -1.
NaN == -1

Digits == <<"0", "1", "2", "3", "4", "5", "6", "7", "8", "9">>
IsDigit(c) == \E d \in DOMAIN Digits : Digits[d] = c
DigitValue(c) == (CHOOSE d \in DOMAIN Digits : Digits[d] = c) - 1

RECURSIVE LeadingDigits(_)
LeadingDigits(chars) ==
    IF chars = <<>> \/ ~IsDigit(Head(chars)) THEN <<>>
    ELSE <<Head(chars)>> \o LeadingDigits(Tail(chars))

RECURSIVE DigitsValue(_)
DigitsValue(chars) ==
    IF chars = <<>> THEN 0
    ELSE DigitsValue(SubSeq(chars, 1, Len(chars) - 1)) * 10
           + DigitValue(chars[Len(chars)])

\* parseInt(string): the value of the leading decimal digits, NaN when
\* there are none.
ParseInt(chars) ==
    IF LeadingDigits(chars) = <<>> THEN NaN ELSE DigitsValue(LeadingDigits(chars))

\* Number.prototype.toString() of a non-negative integer or NaN.
RECURSIVE NumberToString(_)
NumberToString(n) ==
    IF n = NaN THEN <<"N", "a", "N">>
    ELSE IF n < 10 THEN <<Digits[n + 1]>>
    ELSE NumberToString(n \div 10) \o <<Digits[(n % 10) + 1]>>

\* Number(string), as Mongoose converts a string given for a Number path:
\* the value of a string of digits, NaN for any other non-empty string.
StringToNumber(chars) ==
    IF chars # <<>> /\ LeadingDigits(chars) = chars THEN DigitsValue(chars) ELSE NaN

\* Letters differing in case only, for the 'i' flag of the RegExp.
Fold == [c \in {"H", "U", "E", "A", "N", "O", "I", "V", "T", "L"} |->
           CASE c = "H" -> "h" [] c = "U" -> "u" [] c = "E" -> "e"
             [] c = "A" -> "a" [] c = "N" -> "n" [] c = "O" -> "o"
             [] c = "I" -> "i" [] c = "V" -> "v" [] c = "T" -> "t"
             [] c = "L" -> "l"]
LowerCase(chars) ==
    [k \in DOMAIN chars |-> IF chars[k] \in DOMAIN Fold THEN Fold[chars[k]] ELSE chars[k]]

\* new RegExp(pattern, 'i').test(text) for a pattern of letters: the text
\* holds the pattern somewhere, case ignored.
RegExpTest(pattern, text) ==
    \E k \in 0..(Len(text) - Len(pattern)) :
        SubSeq(LowerCase(text), k + 1, k + Len(pattern)) = LowerCase(pattern)

-----------------------------------------------------------------------------
(* constructSearchQuery   (hotels.ts:174-231) *)

\* A built query is a function from its keys to their conditions; {} is the
\* function of no key.
EmptyQuery == <<>>

AsArray(x) == IF IsArray(x) THEN x.v ELSE <<x.v>>

\* lines 177-183
WithDestination(q, p) ==
    IF Truthy(p.destination)
    THEN ("$or" :> <<[path |-> "city", regex |-> p.destination.v],
                     [path |-> "country", regex |-> p.destination.v]>>) @@ q
    ELSE q

\* lines 185-190
WithAdultCount(q, p) ==
    IF Truthy(p.adultCount)
    THEN ("adultCount" :> [op |-> "$gte", v |-> ParseInt(p.adultCount.v)]) @@ q
    ELSE q

\* lines 192-196
WithChildCount(q, p) ==
    IF Truthy(p.childCount)
    THEN ("childCount" :> [op |-> "$gte", v |-> ParseInt(p.childCount.v)]) @@ q
    ELSE q

\* lines 198-205
WithFacilities(q, p) ==
    IF Truthy(p.facilities)
    THEN ("facilities" :> [op |-> "$all", v |-> AsArray(p.facilities)]) @@ q
    ELSE q

\* lines 207-213
WithTypes(q, p) ==
    IF Truthy(p.types)
    THEN ("type" :> [op |-> "$in", v |-> AsArray(p.types)]) @@ q
    ELSE q

\* lines 215-222: an array of stars is mapped through parseInt, a single
\* one is parsed and left a scalar.
WithStars(q, p) ==
    IF Truthy(p.stars)
    THEN ("starRating" :>
            [op |-> "$in",
             isArray |-> IsArray(p.stars),
             v |-> IF IsArray(p.stars)
                   THEN [k \in DOMAIN p.stars.v |-> ParseInt(p.stars.v[k])]
                   ELSE ParseInt(p.stars.v)]) @@ q
    ELSE q

\* The price bound added whether or not maxPrice was supplied.
WithMaxPriceAlways(q, p) ==
    ("pricePerNight" :> [op |-> "$lte", v |-> NumberToString(ParseInt(p.maxPrice.v))]) @@ q

\* lines 224-229
WithMaxPrice(q, p) ==
    IF Truthy(p.maxPrice)
    THEN ("pricePerNight" :>
            [op |-> "$lte", v |-> NumberToString(ParseInt(p.maxPrice.v))]) @@ q
    ELSE q

constructSearchQuery(queryParams) ==
    WithMaxPrice(
      WithStars(
        WithTypes(
          WithFacilities(
            WithChildCount(
              WithAdultCount(
                WithDestination(EmptyQuery, queryParams),
                queryParams),
              queryParams),
            queryParams),
          queryParams),
        queryParams),
      queryParams)

-----------------------------------------------------------------------------
(* The hotel collection answering a query *)

Range(seq) == {seq[k] : k \in DOMAIN seq}

\* The operands Mongoose casts to Number before the query is sent; a NaN
\* among them makes the call reject with a CastError.
NumberOperands(q) ==
    (IF "adultCount" \in DOMAIN q THEN {q["adultCount"].v} ELSE {})
    \cup (IF "childCount" \in DOMAIN q THEN {q["childCount"].v} ELSE {})
    \cup (IF "starRating" \in DOMAIN q
          THEN (IF q["starRating"].isArray
                THEN Range(q["starRating"].v) ELSE {q["starRating"].v})
          ELSE {})
    \cup (IF "pricePerNight" \in DOMAIN q
          THEN {StringToNumber(q["pricePerNight"].v)} ELSE {})

QueryCastError(q) == NaN \in NumberOperands(q)

\* $in takes an array; Mongoose wraps a scalar operand into one.
InOperand(c) == IF c.isArray THEN Range(c.v) ELSE {c.v}

\* Whether a document satisfies every condition of the query.
Matches(doc, q) ==
    /\ "$or" \in DOMAIN q =>
         \E c \in Range(q["$or"]) : RegExpTest(c.regex, doc[c.path])
    /\ "adultCount" \in DOMAIN q => doc.adultCount >= q["adultCount"].v
    /\ "childCount" \in DOMAIN q => doc.childCount >= q["childCount"].v
    /\ "facilities" \in DOMAIN q =>
         Range(q["facilities"].v) \subseteq Range(doc.facilities)
    /\ "type" \in DOMAIN q => doc.type \in Range(q["type"].v)
    /\ "starRating" \in DOMAIN q => doc.starRating \in InOperand(q["starRating"])
    /\ "pricePerNight" \in DOMAIN q =>
         doc.pricePerNight <= StringToNumber(q["pricePerNight"].v)

\* The matching documents in the collection's own order (ids ascending).
RECURSIVE MatchingFrom(_, _)
MatchingFrom(id, q) ==
    IF id \notin DOMAIN hotels THEN <<>>
    ELSE (IF Matches(hotels[id], q) THEN <<hotels[id]>> ELSE <<>>)
           \o MatchingFrom(id + 1, q)

\* lines 20-34
SortOptions(sortOption) ==
    IF sortOption = Str("starRating") THEN <<[path |-> "starRating", dir |-> -1]>>
    ELSE IF sortOption = Str("pricePerNightAsc")
    THEN <<[path |-> "pricePerNight", dir |-> 1]>>
    ELSE IF sortOption = Str("pricePerNightDesc")
    THEN <<[path |-> "pricePerNight", dir |-> -1]>>
    ELSE <<>>

\* .sort(sortOptions): documents with equal keys keep the collection's
\* order here (the database promises no order among them).
Precedes(a, b, sortOptions) ==
    /\ sortOptions # <<>>
    /\ a[sortOptions[1].path] * sortOptions[1].dir
         < b[sortOptions[1].path] * sortOptions[1].dir

RECURSIVE Insert(_, _, _)
Insert(doc, sorted, sortOptions) ==
    IF sorted = <<>> THEN <<doc>>
    ELSE IF Precedes(doc, Head(sorted), sortOptions)
    THEN <<doc>> \o sorted
    ELSE <<Head(sorted)>> \o Insert(doc, Tail(sorted), sortOptions)

RECURSIVE Sort(_, _)
Sort(docs, sortOptions) ==
    IF docs = <<>> THEN <<>>
    ELSE Insert(docs[Len(docs)],
                Sort(SubSeq(docs, 1, Len(docs) - 1), sortOptions), sortOptions)

Min(a, b) == IF a < b THEN a ELSE b

\* .skip(skip).limit(limit)
SkipLimit(docs, skip, limit) == SubSeq(docs, skip + 1, Min(Len(docs), skip + limit))

\* Hotel.find(query).sort(sortOptions).skip(skip).limit(pageSize)
Find(q, sortOptions, skip, limit) ==
    SkipLimit(Sort(MatchingFrom(1, q), sortOptions), skip, limit)

\* The call rejects when the database cannot be reached, when an operand
\* cannot be cast, and for a negative skip.
FindManyError(q, skip, dbDown) ==
    IF dbDown THEN "unavailable"
    ELSE IF QueryCastError(q) THEN "CastError"
    ELSE IF skip < 0 THEN "BadValue"
    ELSE ""

\* Hotel.countDocuments(query)
CountDocuments(q) == Len(MatchingFrom(1, q))

-----------------------------------------------------------------------------
(* GET /search   (hotels.ts:16-61) *)

\* line 36
pageSize == 3

\* line 37   parseInt(req.query.page ? req.query.page.toString() : "1")
CurrentPage(page) == ParseInt(IF Truthy(page) THEN page.v ELSE <<"1">>)

\* The skip of a handler counting pages from zero.
SkipFromZero(currentPage) == currentPage * pageSize

\* line 38
Skip(currentPage) == (currentPage - 1) * pageSize

\* line 53   Math.ceil(total / pageSize)
Pages(total) == (total + pageSize - 1) \div pageSize

SearchRequest(queryParams) ==
    [params |-> queryParams, pc |-> "start", query |-> EmptyQuery,
     currentPage |-> 0, hotels |-> <<>>, res |-> NoResponse, error |-> ""]

\* Lines 18-43: the request is received, the query is built and
\* Hotel.find answers.
SearchFound(req, dbDown) ==
    LET query == constructSearchQuery(req.params)
        currentPage == CurrentPage(req.params.page)
        built == [req EXCEPT !.query = query, !.currentPage = currentPage]
        err == FindManyError(query, Skip(currentPage), dbDown)
    IN IF err # ""
       THEN Caught(built, err, "Error searching!")
       ELSE [built EXCEPT !.pc = "count",
                          !.hotels = Find(query, SortOptions(req.params.sortOption),
                                          Skip(currentPage), pageSize)]

\* Lines 45-56: Hotel.countDocuments answers and the page is sent.
SearchCounted(req, dbDown) ==
    IF dbDown
    THEN Caught(req, "unavailable", "Error searching!")
    ELSE Respond(req, Response(200, "",
           <<[data |-> req.hotels,
              pagination |-> [total |-> CountDocuments(req.query),
                              page |-> req.currentPage,
                              pages |-> Pages(CountDocuments(req.query))]]>>))


-----------------------------------------------------------------------------
(* The search flow: one search request over a collection of 0..MaxHotels *)

Hue == <<"H", "u", "e">>
Hanoi == <<"H", "a", "n", "o", "i">>
Viet == <<"V", "i", "e", "t">>
Lao == <<"L", "a", "o">>
Wifi == <<"W", "i", "f", "i">>
Spa == <<"S", "p", "a">>
Resort == <<"R", "e", "s", "o", "r", "t">>
Motel == <<"M", "o", "t", "e", "l">>

\* The k-th hotel of the collection.
CatalogHotel(k) ==
    [city |-> IF k % 2 = 1 THEN Hue ELSE Hanoi,
     country |-> IF k % 3 = 0 THEN Lao ELSE Viet,
     adultCount |-> 1 + (k % 3),
     childCount |-> k % 2,
     facilities |-> IF k % 2 = 0 THEN <<Wifi, Spa>> ELSE <<Wifi>>,
     type |-> IF k % 3 = 1 THEN Resort ELSE Motel,
     starRating |-> 3 + (k % 3),
     pricePerNight |-> 100 + 50 * (k % 3),
     bookings |-> <<>>]

\* The query strings a client sends.
QueryParams ==
    [destination : {Undefined, Str(<<"H", "U">>)},
     adultCount : {Undefined, Str(<<"2">>), Str(<<"x">>)},
     childCount : {Undefined, Str(<<"1">>)},
     facilities : {Undefined, Str(Spa), Arr(<<Wifi, Spa>>)},
     types : {Undefined, Str(Resort), Arr(<<Resort, Motel>>)},
     stars : {Undefined, Str(<<"4">>), Arr(<< <<"3">>, <<"5">> >>)},
     maxPrice : {Undefined, Str(<<"1", "5", "0">>)},
     sortOption : {Undefined, Str("starRating"), Str("pricePerNightAsc"),
                   Str("pricePerNightDesc")},
     page : {Undefined} \cup {Str(NumberToString(n)) : n \in 1..MaxPage}]

SearchFind ==
    /\ search = None
    /\ \E queryParams \in QueryParams, dbDown \in BOOLEAN :
         search' = Some(SearchFound(SearchRequest(queryParams), dbDown))
    /\ UNCHANGED <<hotels, intents, reqs>>

SearchCount ==
    /\ search # None
    /\ search[1].pc = "count"
    /\ \E dbDown \in BOOLEAN : search' = Some(SearchCounted(search[1], dbDown))
    /\ UNCHANGED <<hotels, intents, reqs>>

InitSearch ==
    /\ \E n \in 0..MaxHotels : hotels = [k \in 1..n |-> CatalogHotel(k)]
    /\ intents = <<>>
    /\ reqs = <<>>
    /\ search = None

NextSearch == SearchFind \/ SearchCount

SpecSearch == InitSearch /\ [][NextSearch]_vars

-----------------------------------------------------------------------------
(* Properties of the booking flow *)

BookingReqs == {r \in Live : reqs[r].kind = "booking"}
IntentReqs == {r \in Live : reqs[r].kind = "payment-intent"}
GetReqs == {r \in Live : reqs[r].kind = "get"}

\* The confirmation requests whose findOneAndUpdate pushed a booking.
Pushed == {r \in BookingReqs : reqs[r].hotel # None}

BookingsOf(h) == hotels[h].bookings

\* C1: every booking stored in a hotel was pushed by a confirmation request
\* for that hotel whose retrieved intent existed, had status succeeded and
\* carried the request's path hotel id and authenticated user id.
C1_BookingOnlyAfterVerifiedPayment ==
    \A h \in DOMAIN hotels : \A k \in DOMAIN BookingsOf(h) :
        \E r \in Pushed :
            /\ reqs[r].hotelId = h
            /\ reqs[r].newBooking = Some(BookingsOf(h)[k])
            /\ BookingsOf(h)[k].userId = reqs[r].userId
            /\ reqs[r].paymentIntent # None
            /\ reqs[r].paymentIntent[1].status = "succeeded"
            /\ reqs[r].paymentIntent[1].metadata.hotelId = h
            /\ reqs[r].paymentIntent[1].metadata.userId = reqs[r].userId
            /\ reqs[r].body.paymentIntentId \in DOMAIN intents
            /\ intents[reqs[r].body.paymentIntentId].status = "succeeded"

C1_Witness ==
    \E h \in DOMAIN hotels : \E r \in Pushed :
        /\ BookingsOf(h) # <<>>
        /\ reqs[r].pc = "done"
        /\ reqs[r].res.status = 200

\* C2: a confirmation request whose retrieved intent carries another hotel
\* id or another user id, or whose status is not succeeded, is answered 400
\* (with the status named when that is the reason) in the step that
\* retrieves the intent, that step changes no hotel's bookings, and the
\* request never reaches the update.
C2_RejectedConfirmationAppendsNothing ==
    [][\A r \in DOMAIN reqs' :
         LET q == reqs'[r]
             wrongHotel == q.paymentIntent[1].metadata.hotelId # q.hotelId
             wrongUser == q.paymentIntent[1].metadata.userId # q.userId
             unpaid == q.paymentIntent[1].status # "succeeded"
         IN (q.kind = "booking" /\ q.paymentIntent # None
             /\ (wrongHotel \/ wrongUser \/ unpaid))
            => /\ q.pc = "done"
               /\ q.res.status = 400
               /\ q.newBooking = None
               /\ q.hotel = None
               /\ (r \notin DOMAIN reqs => hotels' = hotels)
               /\ (~wrongHotel /\ ~wrongUser
                     => q.res.data = <<q.paymentIntent[1].status>>)]_vars

C2_Witness ==
    \E r \in BookingReqs :
        /\ reqs[r].paymentIntent # None
        /\ reqs[r].paymentIntent[1].metadata.hotelId = reqs[r].hotelId
        /\ reqs[r].paymentIntent[1].metadata.userId # reqs[r].userId
        /\ reqs[r].paymentIntent[1].status = "succeeded"
        /\ reqs[r].res.status = 400

C6_FailureAnswered500 ==
    \A r \in Live :
        reqs[r].error # "" => reqs[r].pc = "done" /\ reqs[r].res.status = 500

\* C7: GET /:id answers the hotel when the id resolves and 400 when it does
\* not (a string the store cannot parse, an id of no hotel), the database
\* being reachable.
C7_GetHotelOr400 ==
    \A r \in GetReqs :
        reqs[r].error # "unavailable" =>
            IF reqs[r].hotelId \in DOMAIN hotels
            THEN reqs[r].res.status = 200
                 /\ reqs[r].res.data = Some(Hydrate(hotels[reqs[r].hotelId]))
            ELSE reqs[r].res.status = 400

\* C8: two confirmation requests with the same path hotel id, user and
\* payment intent id, for which the processor returned the same intent and
\* no call failed, get the same response and push the same booking,
\* whatever cost their bodies carry.
C8_ClientCostNotTrusted ==
    \A r1, r2 \in BookingReqs :
        (/\ reqs[r1].pc = "done" /\ reqs[r2].pc = "done"
         /\ reqs[r1].error = "" /\ reqs[r2].error = ""
         /\ reqs[r1].hotelId = reqs[r2].hotelId
         /\ reqs[r1].userId = reqs[r2].userId
         /\ reqs[r1].body.paymentIntentId = reqs[r2].body.paymentIntentId
         /\ reqs[r1].paymentIntent = reqs[r2].paymentIntent)
        => /\ reqs[r1].res = reqs[r2].res
           /\ reqs[r1].newBooking = reqs[r2].newBooking

\* C9: every confirmation request whose update pushed a booking finds, from
\* then on, the bookings it was handed back (those stored before its push)
\* followed by its own booking at the head of the hotel's stored bookings:
\* no push is lost or overwritten by another request's push or save, and
\* no stored booking is removed or changed.
C9_NoAppendLost ==
    \A r \in Pushed :
        LET before == reqs[r].hotel[1].bookings
            now == BookingsOf(reqs[r].hotelId)
        IN /\ Len(now) > Len(before)
           /\ SubSeq(now, 1, Len(before)) = before
           /\ now[Len(before) + 1] = reqs[r].newBooking[1]

\* Two confirmations of distinct intents on one hotel, interleaved: the
\* second pushed and saved while the first, which pushed before it, still
\* holds its stale document unsaved; the first then saves.
C9_Witness ==
    \E r1, r2 \in Pushed :
        /\ reqs[r1].hotelId = reqs[r2].hotelId
        /\ reqs[r1].body.paymentIntentId # reqs[r2].body.paymentIntentId
        /\ reqs[r1].hotel[1].bookings = <<>>
        /\ reqs[r2].hotel[1].bookings = <<reqs[r1].newBooking[1]>>
        /\ reqs[r1].pc = "done" /\ reqs[r1].res.status = 200
        /\ reqs[r2].pc = "done" /\ reqs[r2].res.status = 200
        /\ BookingsOf(reqs[r1].hotelId) =
             <<reqs[r1].newBooking[1], reqs[r2].newBooking[1]>>

\* C10: confirmation is not idempotent: a hotel holds as many bookings of a
\* payment intent id as confirmation requests pushed one for it, and a
\* confirmation of a succeeded, matching intent whose calls all answered
\* ends with 200, also when the intent was confirmed before.
C10_ConfirmationNotIdempotent ==
    /\ \A h \in DOMAIN hotels : \A i \in DOMAIN intents :
         Cardinality({k \in DOMAIN BookingsOf(h) :
                        BookingsOf(h)[k].paymentIntentId = i})
           = Cardinality({r \in Pushed : reqs[r].hotelId = h
                                         /\ reqs[r].body.paymentIntentId = i})
    /\ \A r \in BookingReqs :
         (/\ reqs[r].pc = "done"
          /\ reqs[r].error = ""
          /\ reqs[r].paymentIntent # None
          /\ reqs[r].paymentIntent[1].status = "succeeded"
          /\ reqs[r].paymentIntent[1].metadata =
               [hotelId |-> reqs[r].hotelId, userId |-> reqs[r].userId])
         => reqs[r].res.status = 200 /\ r \in Pushed

\* Two confirmations by one user of one succeeded intent, the second having
\* been handed back the first one's booking: both answered 200 and the hotel
\* holds two bookings of that intent.
C10_Witness ==
    \E r1, r2 \in Pushed :
        /\ r1 # r2
        /\ reqs[r1].hotelId = reqs[r2].hotelId
        /\ reqs[r1].userId = reqs[r2].userId
        /\ reqs[r1].body = reqs[r2].body
        /\ reqs[r1].res.status = 200 /\ reqs[r2].res.status = 200
        /\ reqs[r1].hotel[1].bookings = <<>>
        /\ Len(reqs[r2].hotel[1].bookings) = 1
        /\ Len(BookingsOf(reqs[r1].hotelId)) = 2

-----------------------------------------------------------------------------
(* Properties of the search flow *)

\* The page number a request asks for: 1 when it names none.
AskedPage(params) ==
    IF params.page = Undefined THEN 1
    ELSE CHOOSE n \in 1..MaxPage : params.page = Str(NumberToString(n))

\* C4: a search answered for page p over `total` matching hotels reports
\* pagination.total = total and pagination.pages = ceil(total / 3), and
\* hands back min(3, max(0, total - 3 * (p - 1))) hotels; a page beyond the
\* last is an empty page with the same totals, answered 200.
C4_Pagination ==
    (search # None /\ search[1].pc = "done" /\ search[1].error = "")
    => LET body == search[1].res.data[1]
           total == Cardinality({id \in DOMAIN hotels :
                                   Matches(hotels[id], search[1].query)})
           p == AskedPage(search[1].params)
           rest == total - 3 * (p - 1)
       IN /\ search[1].res.status = 200
          /\ body.pagination.total = total
          /\ body.pagination.pages * 3 >= total
          /\ (body.pagination.pages - 1) * 3 < total
          /\ Len(body.data) = (IF rest <= 0 THEN 0 ELSE IF rest >= 3 THEN 3 ELSE rest)
          /\ Len(body.data) <= 3

C4_Witness ==
    /\ search # None
    /\ search[1].res.status = 200
    /\ search[1].params.page = Str(<<"3">>)
    /\ search[1].res.data[1].pagination.total = 7
    /\ search[1].res.data[1].pagination.pages = 3
    /\ Len(search[1].res.data[1].data) = 1

\* C5: the built query holds no key for a parameter that was not supplied.
C5_AbsentParameterNoKey ==
    search # None =>
        LET q == search[1].query
            p == search[1].params
        IN /\ p.destination = Undefined => "$or" \notin DOMAIN q
           /\ p.adultCount = Undefined => "adultCount" \notin DOMAIN q
           /\ p.childCount = Undefined => "childCount" \notin DOMAIN q
           /\ p.facilities = Undefined => "facilities" \notin DOMAIN q
           /\ p.types = Undefined => "type" \notin DOMAIN q
           /\ p.stars = Undefined => "starRating" \notin DOMAIN q
           /\ p.maxPrice = Undefined => "pricePerNight" \notin DOMAIN q

C5_Witness ==
    /\ search # None
    /\ search[1].params.destination = Undefined
    /\ search[1].params.maxPrice = Undefined
    /\ search[1].params.facilities = Undefined
    /\ DOMAIN search[1].query = {"adultCount", "childCount", "type", "starRating"}
    /\ search[1].res.status = 200

====
